---- MODULE Spec2Model ----
(***************************************************************************)
(* Collaborative-filtering anime recommender.                              *)
(*                                                                         *)
(* State: the fields of one CollaborativeFilteringRecommender              *)
(* (collaborative_filtering.py), the fields of the                         *)
(* AnimeRecommendationSystem that owns it (main.py), the ratings matrix    *)
(* the caller holds, and the outcome of the last call.                     *)
(*                                                                         *)
(* Numbers.  Ratings are integers.  Means and predicted ratings are exact  *)
(* rationals <<n, d>> in lowest terms with d > 0; <<0, 0>> is NaN (the     *)
(* mean of an empty axis).  A cosine similarity is held in fixed point,    *)
(* as the integer floor(SimScale * cos), so that 1.0 is SimScale.          *)
(* An optional field (None in the source) is the empty tuple <<>>, and a   *)
(* present one is the one-element tuple <<v>>.                             *)
(***************************************************************************)
EXTENDS Integers, Sequences, FiniteSets, TLC

\* ---------------------------------------------------------------- bounds
MaxUsers == 3
MaxItems == 3
MaxRated == 1

\* fixed-point unit of a similarity value
SimScale == 1000

\* the rating scale the clamp of predict_* assumes
MinRating == 1
MaxRating == 10

\* the rating of the ratings tables that are enumerated
RatingValues == {5}

\* the user and item ids of the model; an id that has no rating in a table
\* is unknown to the matrix pivoted from it
UserIds == 1..MaxUsers
ItemIds == 1..MaxItems

\* ------------------------------------------------------------- rationals
RECURSIVE GCD(_, _)
GCD(a, b) == IF b = 0 THEN a ELSE GCD(b, a % b)

Abs(x) == IF x < 0 THEN -x ELSE x

NaN == <<0, 0>>

IsNaN(q) == q[2] = 0

\* n / d in lowest terms, d /= 0
Rat(n, d) ==
    LET g == GCD(Abs(n), Abs(d))
        s == IF d < 0 THEN -1 ELSE 1
    IN  IF d = 0 THEN NaN ELSE <<s * (n \div g), s * (d \div g)>>

RatOfInt(n) == <<n, 1>>

\* comparisons of two non-NaN rationals
RatLess(p, q) == p[1] * q[2] < q[1] * p[2]
RatLeq(p, q) == p[1] * q[2] <= q[1] * p[2]

RECURSIVE SumOver(_, _)
SumOver(S, f) ==
    IF S = {} THEN 0
    ELSE LET e == CHOOSE x \in S : TRUE IN f[e] + SumOver(S \ {e}, f)

\* ------------------------------------------------------------ DataFrames
\* A ratings DataFrame: row labels, column labels (both in ascending order,
\* as pivot_table leaves them) and the cell values.
Frame(rows, cols, vals) == [index |-> rows, columns |-> cols, values |-> vals]

\* pivot_table(index='user_id', columns='anime_id', values='rating',
\* fill_value=0) of a ratings table t, a function from (user, item) pairs to
\* ratings: the users and the items that occur in t, 0 where t has no rating
Pivot(t) ==
    LET rows == { c[1] : c \in DOMAIN t }
        cols == { c[2] : c \in DOMAIN t }
    IN  Frame(rows, cols, [c \in rows \X cols |-> IF c \in DOMAIN t THEN t[c] ELSE 0])

\* the ratings tables with at most MaxRated ratings
RatingTables ==
    UNION { [S -> RatingValues] :
              S \in { T \in SUBSET (UserIds \X ItemIds) : Cardinality(T) <= MaxRated } }

\* a matrix written out row by row
Dense(rowseq) ==
    Frame(1..Len(rowseq), 1..Len(rowseq[1]),
          [c \in (1..Len(rowseq)) \X (1..Len(rowseq[1])) |-> rowseq[c[1]][c[2]]])

\* spec.md section 8: user1=[5,0,3], user2=[4,0,2], user3=[0,5,0]
ScenarioFrame == Dense(<< <<5, 0, 3>>, <<4, 0, 2>>, <<0, 5, 0>> >>)

\* matrices written out, for what a table of MaxRated ratings cannot show:
\* rows and columns without a rating, neighbours of different similarity that
\* rated the target, predictions beyond either end of the rating scale, equal
\* scores, users and items that are not in the matrix
ExtraFrames ==
    { ScenarioFrame,
      Dense(<< <<0, 0, 0>>, <<10, 1, 0>>, <<1, 0, 0>> >>),
      Dense(<< <<10, 0, 0>>, <<10, 1, 0>>, <<1, 10, 0>> >>),
      Dense(<< <<10, 1, 0>>, <<1, 10, 10>>, <<0, 0, 0>> >>),
      Dense(<< <<10, 10, 0>>, <<1, 0, 10>>, <<0, 0, 1>> >>),
      Dense(<< <<1, 0, 0>>, <<10, 0, 1>>, <<10, 10, 10>> >>),
      Dense(<< <<10, 0, 0>>, <<10, 1, 10>>, <<0, 0, 0>> >>),
      Dense(<< <<10, 5, 0>>, <<5, 10, 1>>, <<1, 1, 10>> >>),
      Dense(<< <<10, 5, 0>>, <<10, 4, 0>>, <<5, 10, 1>>, <<1, 1, 10>> >>),
      Dense(<< <<0, 1, 10>>, <<1, 0, 10>> >>),
      Dense(<< <<1, 0, 0>>, <<10, 0, 0>> >>),
      Dense(<< <<1, 0>>, <<0, 1>> >>),
      Dense(<< <<10, 0>>, <<0, 1>> >>),
      Dense(<< <<10, 1>>, <<1, 10>> >>),
      Dense(<< <<0, 0>>, <<0, 0>> >>),
      Dense(<< <<10, 1, 5>> >>),
      Dense(<< <<10>>, <<1>>, <<0>> >>) }

InputFrames == { Pivot(t) : t \in RatingTables } \cup ExtraFrames

\* DataFrame.mean(axis=1): row mean, unrated zeros included
MeanAxis1(df) ==
    [u \in df.index |->
        Rat(SumOver(df.columns, [i \in df.columns |-> df.values[<<u, i>>]]),
            Cardinality(df.columns))]

\* mutant of MeanAxis0: the mean of the rated entries only
MeanAxis0_RatedOnly(df) ==
    [i \in df.columns |->
        Rat(SumOver(df.index, [u \in df.index |-> df.values[<<u, i>>]]),
            Cardinality({ u \in df.index : df.values[<<u, i>>] > 0 }))]

\* DataFrame.mean(axis=0): column mean, unrated zeros included
MeanAxis0(df) ==
    [i \in df.columns |->
        Rat(SumOver(df.index, [u \in df.index |-> df.values[<<u, i>>]]),
            Cardinality(df.index))]

\* ------------------------------------------------------ cosine similarity
RECURSIVE ISqrtIter(_, _)
ISqrtIter(x, g) ==
    LET h == (g + x \div g) \div 2
    IN  IF h >= g THEN g ELSE ISqrtIter(x, h)

\* floor of the square root
ISqrt(x) == IF x = 0 THEN 0 ELSE ISqrtIter(x, x)

\* the rating vector of entity e: a row (axis = 1) or a column (axis = 0)
Vec(df, axis, e) ==
    IF axis = 1 THEN [i \in df.columns |-> df.values[<<e, i>>]]
    ELSE [u \in df.index |-> df.values[<<u, e>>]]

Dot(v, w) == SumOver(DOMAIN v, [d \in DOMAIN v |-> v[d] * w[d]])

\* mutant of Cosine: the dot product divided by the squared norm of the first
\* vector alone
Cosine_FirstNormOnly(v, w) ==
    IF Dot(v, v) * Dot(w, w) = 0 THEN 0
    ELSE (SimScale * Dot(v, w)) \div Dot(v, v)

\* mutant of Cosine: a vector of zero norm is as similar as can be to every
\* vector
Cosine_ZeroNormIsOne(v, w) ==
    LET p == Dot(v, v) * Dot(w, w)
    IN  IF p = 0 THEN SimScale
        ELSE (SimScale * 100 * Dot(v, w)) \div ISqrt(p * 10000)

\* sklearn's cosine_similarity of two vectors: each is divided by its norm (a
\* zero norm is replaced by 1, leaving the zero vector), then the dot product
Cosine(v, w) ==
    LET p == Dot(v, v) * Dot(w, w)
    IN  IF p = 0 THEN 0
        ELSE (SimScale * 100 * Dot(v, w)) \div ISqrt(p * 10000)

\* cosine_similarity(X) as a DataFrame over the labels of X's rows
cosine_similarity(df, axis) ==
    LET labels == IF axis = 1 THEN df.index ELSE df.columns
    IN  [p \in labels \X labels |-> Cosine(Vec(df, axis, p[1]), Vec(df, axis, p[2]))]

RatAdd(p, q) == Rat(p[1] * q[2] + q[1] * p[2], p[2] * q[2])
RatSub(p, q) == Rat(p[1] * q[2] - q[1] * p[2], p[2] * q[2])
RatMul(p, q) == Rat(p[1] * q[1], p[2] * q[2])
RatDiv(p, q) == Rat(p[1] * q[2], p[2] * q[1])

\* max(1, min(10, predicted_rating))
Clamp(q) ==
    LET lo == RatOfInt(MinRating)
        hi == RatOfInt(MaxRating)
        m  == IF RatLess(hi, q) THEN hi ELSE q
    IN  IF RatLess(m, lo) THEN lo ELSE m

\* ------------------------------------------------------- sorted selection
\* mutant of InsertDesc: x goes before the elements of equal key
RECURSIVE InsertDesc_TiesFirst(_, _, _)
InsertDesc_TiesFirst(s, x, Key) ==
    IF s = <<>> THEN <<x>>
    ELSE IF IsNaN(Key[x]) \/ (~IsNaN(Key[Head(s)]) /\ RatLess(Key[x], Key[Head(s)]))
         THEN <<Head(s)>> \o InsertDesc_TiesFirst(Tail(s), x, Key)
         ELSE <<x>> \o s

\* s with x put after every element whose key is >= Key[x] (so that equal
\* keys keep their order of insertion); NaN keys go last
RECURSIVE InsertDesc(_, _, _)
InsertDesc(s, x, Key) ==
    IF s = <<>> THEN <<x>>
    ELSE IF IsNaN(Key[x]) \/ (~IsNaN(Key[Head(s)]) /\ RatLeq(Key[x], Key[Head(s)]))
         THEN <<Head(s)>> \o InsertDesc(Tail(s), x, Key)
         ELSE <<x>> \o s

\* a stable sort of the sequence s by Key, largest first
RECURSIVE SortDesc(_, _)
SortDesc(s, Key) ==
    IF s = <<>> THEN <<>>
    ELSE InsertDesc(SortDesc(SubSeq(s, 1, Len(s) - 1), Key), s[Len(s)], Key)

\* the labels of S in index order (ascending ids)
RECURSIVE SeqOf(_)
SeqOf(S) ==
    IF S = {} THEN <<>>
    ELSE LET m == CHOOSE x \in S : \A y \in S : x <= y IN <<m>> \o SeqOf(S \ {m})

\* s[:n] for n >= 0
Take(s, n) == SubSeq(s, 1, IF n < Len(s) THEN n ELSE Len(s))

Range(s) == { s[j] : j \in 1..Len(s) }

\* ---------------------------------------------------------------- state
VARIABLES
    ratings_matrix,          \* the DataFrame the caller passes to fit
    user_item_matrix,        \* recommender fields; <<>> is None
    mean_user_ratings,
    mean_item_ratings,
    user_similarity_matrix,
    item_similarity_matrix,
    fit_outcome,             \* how the last call of fit ended
    is_fitted,               \* AnimeRecommendationSystem.is_fitted
    evaluator,               \* AnimeRecommendationSystem.evaluator: "none", or
                             \* the recommender it wraps: "recommender" for
                             \* the current one, "replaced" for an earlier one
    result                   \* the last call and what it returned or raised

vars == <<ratings_matrix, user_item_matrix, mean_user_ratings, mean_item_ratings,
          user_similarity_matrix, item_similarity_matrix, fit_outcome, is_fitted,
          evaluator, result>>

recommender_fields == <<user_item_matrix, mean_user_ratings, mean_item_ratings,
                        user_similarity_matrix, item_similarity_matrix, fit_outcome>>

system_fields == <<is_fitted, evaluator>>

\* what a call gives back
Val(q) == [tag |-> "value", val |-> q, items |-> <<>>, err |-> ""]
List(l) == [tag |-> "list", val |-> NaN, items |-> l, err |-> ""]
Raise(e) == [tag |-> "raise", val |-> NaN, items |-> <<>>, err |-> e]
Done == [tag |-> "none", val |-> NaN, items |-> <<>>, err |-> ""]

Call(op, user, item, n, k, ret) ==
    [op |-> op, user |-> user, item |-> item, n |-> n, k |-> k, ret |-> ret]

\* ------------------------------------------------------------------- fit
\* fit raises inside the first cosine_similarity when the matrix has no rows
\* or no columns (sklearn's check_array), after the matrix and the means have
\* been stored
FitRaises(df) == df.index = {} \/ df.columns = {}

Fit ==
    /\ user_item_matrix' = <<ratings_matrix>>
    /\ mean_user_ratings' = <<MeanAxis1(ratings_matrix)>>
    /\ mean_item_ratings' = <<MeanAxis0(ratings_matrix)>>
    /\ IF FitRaises(ratings_matrix)
       THEN /\ UNCHANGED <<user_similarity_matrix, item_similarity_matrix>>
            /\ fit_outcome' = "raise"
            /\ result' = Call("fit", 0, 0, 0, 0, Raise("ValueError"))
       ELSE /\ user_similarity_matrix' = <<cosine_similarity(ratings_matrix, 1)>>
            /\ item_similarity_matrix' = <<cosine_similarity(ratings_matrix, 0)>>
            /\ fit_outcome' = "ok"
            /\ result' = Call("fit", 0, 0, 0, 0, Done)
    /\ UNCHANGED <<ratings_matrix, system_fields>>

\* ------------------------------------------------------ the caller's matrix
\* the DataFrame without a row or a column
EmptyFrame == Pivot(<<>>)

\* what the caller turns its matrix into after it has passed it to fit
ChangedFrames ==
    { ScenarioFrame,
      Dense(<< <<10, 0, 0>>, <<10, 1, 0>>, <<1, 10, 0>> >>),
      Dense(<< <<1, 0>>, <<0, 1>> >>),
      EmptyFrame }

\* mutant of copy: fit keeps the caller's object, and sees what is written
\* to it
copy_SameObject(held, written) == IF held = <<>> THEN held ELSE <<written>>

\* user_item_matrix.copy() in fit: the recommender's matrix is an object of
\* its own, and keeps the value held when the caller's becomes written
copy(held, written) == held

\* the caller writes to the DataFrame it has passed, or will pass, to fit
CallerChangesMatrix ==
    \E df \in ChangedFrames :
        /\ df /= ratings_matrix
        /\ ratings_matrix' = df
        /\ user_item_matrix' = copy(user_item_matrix, df)
        /\ UNCHANGED <<mean_user_ratings, mean_item_ratings, user_similarity_matrix,
                       item_similarity_matrix, fit_outcome, system_fields, result>>

\* ---------------------------------------------------------------- predict
\* mutant of TopK: every label of positive similarity is kept
TopK_Untruncated(labels, sim, k) ==
    SortDesc(SeqOf({ l \in labels : sim[l] > 0 }), [l \in labels |-> RatOfInt(sim[l])])

\* Series.sort_values(ascending=False)[:k] over the labels kept by the filter
\* "> 0": the labels in index order, sorted by similarity, largest first.
\* Labels of equal similarity stay in index order: pandas sorts the reversed
\* values and reverses the result, and numpy's default sort is an insertion
\* sort, hence stable, on the short arrays of this model.
TopK(labels, sim, k) ==
    Take(SortDesc(SeqOf({ l \in labels : sim[l] > 0 }),
                  [l \in labels |-> RatOfInt(sim[l])]), k)

\* the sum of f over the elements of the sequence s
RECURSIVE RatSum(_, _)
RatSum(s, f) ==
    IF s = <<>> THEN RatOfInt(0) ELSE RatAdd(f[Head(s)], RatSum(Tail(s), f))

\* mutant of cold_start: an unknown item is always answered with 0
cold_start_ZeroForUnknownItem(user_id, anime_id) ==
    LET df == user_item_matrix[1]
        mi == mean_item_ratings[1]
    IN
    IF anime_id \notin df.columns THEN [hit |-> TRUE, ret |-> Val(RatOfInt(0))]
    ELSE IF user_id \notin df.index THEN [hit |-> TRUE, ret |-> Val(mi[anime_id])]
    ELSE [hit |-> FALSE, ret |-> Done]

\* mutant of cold_start: the mean is looked up without asking whether the id
\* is in it
cold_start_Unchecked(user_id, anime_id) ==
    LET df == user_item_matrix[1]
        mu == mean_user_ratings[1]
        mi == mean_item_ratings[1]
    IN
    IF user_id \notin df.index
    THEN [hit |-> TRUE,
          ret |-> IF anime_id \in DOMAIN mi THEN Val(mi[anime_id]) ELSE Raise("KeyError")]
    ELSE IF anime_id \notin df.columns
    THEN [hit |-> TRUE,
          ret |-> IF user_id \in DOMAIN mu THEN Val(mu[user_id]) ELSE Raise("KeyError")]
    ELSE [hit |-> FALSE, ret |-> Done]

\* the guards that open both predictors: an id missing from the matrix is
\* answered from the mean ratings, or with 0 when the other id is missing too
cold_start(user_id, anime_id) ==
    LET df == user_item_matrix[1]
        mu == mean_user_ratings[1]
        mi == mean_item_ratings[1]
    IN
    IF user_id \notin df.index
    THEN [hit |-> TRUE,
          ret |-> IF anime_id \in DOMAIN mi THEN Val(mi[anime_id]) ELSE Val(RatOfInt(0))]
    ELSE IF anime_id \notin df.columns
    THEN [hit |-> TRUE,
          ret |-> IF user_id \in DOMAIN mu THEN Val(mu[user_id]) ELSE Val(RatOfInt(0))]
    ELSE [hit |-> FALSE, ret |-> Done]

\* mutant of predict_user_based: the neighbours that rated the item are
\* selected before the list is cut to k
predict_user_based_RatersFirst(user_id, anime_id, k) ==
    IF user_item_matrix = <<>> THEN Raise("AttributeError")
    ELSE IF cold_start(user_id, anime_id).hit THEN cold_start(user_id, anime_id).ret
    ELSE
    LET df == user_item_matrix[1]
        mu == mean_user_ratings[1]
        mi == mean_item_ratings[1]
    IN
    IF user_similarity_matrix = <<>> THEN Raise("TypeError")
    ELSE
    LET usm    == user_similarity_matrix[1]
        labels == { p[1] : p \in DOMAIN usm }
    IN
    IF user_id \notin labels THEN Raise("KeyError")
    ELSE
    LET others == labels \ {user_id}
        sim    == [n \in others |-> usm[<<n, user_id>>]]
        user_similarities ==
            TopK({ n \in others : n \in df.index /\ df.values[<<n, anime_id>>] > 0 }, sim, k)
    IN
    IF Len(user_similarities) = 0 THEN Val(mi[anime_id])
    ELSE IF ~(Range(user_similarities) \subseteq df.index) THEN Raise("KeyError")
    ELSE
    LET raters == SelectSeq(user_similarities,
                            LAMBDA n : df.values[<<n, anime_id>>] > 0)
        numerator ==
            RatSum(raters,
                   [n \in others |->
                       RatMul(RatOfInt(sim[n]),
                              RatSub(RatOfInt(df.values[<<n, anime_id>>]), mu[n]))])
        denominator == RatSum(raters, [n \in others |-> RatOfInt(Abs(sim[n]))])
    IN
    IF denominator = RatOfInt(0) THEN Val(mu[user_id])
    ELSE Val(Clamp(RatAdd(mu[user_id], RatDiv(numerator, denominator))))

predict_user_based(user_id, anime_id, k) ==
    IF user_item_matrix = <<>> THEN Raise("AttributeError")
    ELSE IF cold_start(user_id, anime_id).hit THEN cold_start(user_id, anime_id).ret
    ELSE
    LET df == user_item_matrix[1]
        mu == mean_user_ratings[1]
        mi == mean_item_ratings[1]
    IN
    IF user_similarity_matrix = <<>> THEN Raise("TypeError")
    ELSE
    LET usm    == user_similarity_matrix[1]
        labels == { p[1] : p \in DOMAIN usm }
    IN
    IF user_id \notin labels THEN Raise("KeyError")
    ELSE
    LET others == labels \ {user_id}
        sim    == [n \in others |-> usm[<<n, user_id>>]]
        user_similarities == TopK(others, sim, k)
    IN
    IF Len(user_similarities) = 0 THEN Val(mi[anime_id])
    ELSE IF ~(Range(user_similarities) \subseteq df.index) THEN Raise("KeyError")
    ELSE
    LET raters == SelectSeq(user_similarities,
                            LAMBDA n : df.values[<<n, anime_id>>] > 0)
        numerator ==
            RatSum(raters,
                   [n \in others |->
                       RatMul(RatOfInt(sim[n]),
                              RatSub(RatOfInt(df.values[<<n, anime_id>>]), mu[n]))])
        denominator == RatSum(raters, [n \in others |-> RatOfInt(Abs(sim[n]))])
    IN
    IF denominator = RatOfInt(0) THEN Val(mu[user_id])
    ELSE Val(Clamp(RatAdd(mu[user_id], RatDiv(numerator, denominator))))

predict_item_based(user_id, anime_id, k) ==
    IF user_item_matrix = <<>> THEN Raise("AttributeError")
    ELSE IF cold_start(user_id, anime_id).hit THEN cold_start(user_id, anime_id).ret
    ELSE
    LET df == user_item_matrix[1]
        mi == mean_item_ratings[1]
        user_ratings == [i \in df.columns |-> df.values[<<user_id, i>>]]
        rated_items  == { i \in df.columns : user_ratings[i] > 0 }
    IN
    IF rated_items = {} THEN Val(mi[anime_id])
    ELSE IF item_similarity_matrix = <<>> THEN Raise("TypeError")
    ELSE
    LET ism    == item_similarity_matrix[1]
        labels == { p[1] : p \in DOMAIN ism }
    IN
    IF anime_id \notin labels \/ ~(rated_items \subseteq labels) THEN Raise("KeyError")
    ELSE
    LET sim == [n \in rated_items |-> ism[<<n, anime_id>>]]
        similar_items == TopK(rated_items, sim, k)
    IN
    IF Len(similar_items) = 0 THEN Val(mi[anime_id])
    ELSE
    LET numerator ==
            RatSum(similar_items,
                   [n \in rated_items |-> RatOfInt(sim[n] * user_ratings[n])])
        denominator == RatSum(similar_items, [n \in rated_items |-> RatOfInt(Abs(sim[n]))])
    IN
    IF denominator = RatOfInt(0) THEN Val(mi[anime_id])
    ELSE Val(Clamp(RatDiv(numerator, denominator)))

\* the values of k and of n_recommendations (or n) that are tried: none, one,
\* and two
KValues == {0, 1, 2}
NValues == {0, 1, 2}

PredictUserBased ==
    \E u \in UserIds, i \in ItemIds, k \in KValues :
        /\ result' = Call("predict_user_based", u, i, 0, k, predict_user_based(u, i, k))
        /\ UNCHANGED <<ratings_matrix, recommender_fields, system_fields>>

PredictItemBased ==
    \E u \in UserIds, i \in ItemIds, k \in KValues :
        /\ result' = Call("predict_item_based", u, i, 0, k, predict_item_based(u, i, k))
        /\ UNCHANGED <<ratings_matrix, recommender_fields, system_fields>>

\* -------------------------------------------------------------- recommend
\* data_loader.get_anime_info(anime_id).get('name', f'Anime {anime_id}'): the
\* catalog's name of the item, or the synthesized label
CatalogSize == 15

anime_name(anime_id) ==
    IF anime_id \in 1..CatalogSize THEN <<"name", anime_id>> ELSE <<"Anime", anime_id>>

Rec(id, name, score) == [id |-> id, name |-> name, score |-> score]

\* mutant of _get_popular_recommendations: the means sorted smallest first
_get_popular_recommendations_Ascending(n) ==
    LET mi == mean_item_ratings[1]
        popular_anime ==
            Take(SortDesc(SeqOf(DOMAIN mi),
                          [i \in DOMAIN mi |-> RatSub(RatOfInt(0), mi[i])]), n)
    IN  List([j \in 1..Len(popular_anime) |->
                 Rec(popular_anime[j], anime_name(popular_anime[j]), mi[popular_anime[j]])])

_get_popular_recommendations(n) ==
    LET mi == mean_item_ratings[1]
        popular_anime == Take(SortDesc(SeqOf(DOMAIN mi), mi), n)
    IN  List([j \in 1..Len(popular_anime) |->
                 Rec(popular_anime[j], anime_name(popular_anime[j]), mi[popular_anime[j]])])

\* mutant of SortRecs: the list is left in the order of the columns
SortRecs_Unsorted(recommendations) == recommendations

\* list.sort(key=lambda x: x[2], reverse=True): stable, largest score first
SortRecs(recommendations) ==
    LET order == SortDesc([j \in 1..Len(recommendations) |-> j],
                          [j \in 1..Len(recommendations) |-> recommendations[j].score])
    IN  [j \in 1..Len(order) |-> recommendations[order[j]]]

\* the predictor a recommend method calls
predict(strategy, user_id, anime_id, k) ==
    IF strategy = "user_based" THEN predict_user_based(user_id, anime_id, k)
    ELSE predict_item_based(user_id, anime_id, k)

\* the body shared by recommend_user_based and recommend_item_based, which
\* differ only in the predictor they call
Recommend(strategy, user_id, n_recommendations, k) ==
    IF user_item_matrix = <<>> THEN Raise("AttributeError")
    ELSE
    LET df == user_item_matrix[1] IN
    IF user_id \notin df.index THEN _get_popular_recommendations(n_recommendations)
    ELSE
    LET unrated_anime == SeqOf({ i \in df.columns : df.values[<<user_id, i>>] = 0 })
        predicted == [j \in 1..Len(unrated_anime) |-> predict(strategy, user_id, unrated_anime[j], k)]
        failed == { j \in 1..Len(unrated_anime) : predicted[j].tag = "raise" }
    IN
    IF failed /= {}
    THEN Raise(predicted[CHOOSE j \in failed : \A h \in failed : j <= h].err)
    ELSE
    LET recommendations ==
            [j \in 1..Len(unrated_anime) |->
                Rec(unrated_anime[j], anime_name(unrated_anime[j]), predicted[j].val)]
    IN  List(Take(SortRecs(recommendations), n_recommendations))

recommend_user_based(user_id, n_recommendations, k) ==
    Recommend("user_based", user_id, n_recommendations, k)

recommend_item_based(user_id, n_recommendations, k) ==
    Recommend("item_based", user_id, n_recommendations, k)

\* mutant of RecommendUserBased: the items recommended to the user are
\* written into the matrix as rated by the user
RecommendUserBased_FillsMatrix ==
    \E u \in UserIds, n \in NValues, k \in KValues :
        LET ret == recommend_user_based(u, n, k)
            df == user_item_matrix[1]
            ids == { ret.items[j].id : j \in 1..Len(ret.items) }
        IN  /\ result' = Call("recommend_user_based", u, 0, n, k, ret)
            /\ user_item_matrix' =
                   IF user_item_matrix /= <<>> /\ u \in df.index
                   THEN <<Frame(df.index, df.columns,
                                [c \in DOMAIN df.values |->
                                    IF c[1] = u /\ c[2] \in ids THEN MinRating
                                    ELSE df.values[c]])>>
                   ELSE user_item_matrix
            /\ UNCHANGED <<ratings_matrix, mean_user_ratings, mean_item_ratings,
                           user_similarity_matrix, item_similarity_matrix,
                           fit_outcome, system_fields>>

RecommendUserBased ==
    \E u \in UserIds, n \in NValues, k \in KValues :
        /\ result' = Call("recommend_user_based", u, 0, n, k, recommend_user_based(u, n, k))
        /\ UNCHANGED <<ratings_matrix, recommender_fields, system_fields>>

RecommendItemBased ==
    \E u \in UserIds, n \in NValues, k \in KValues :
        /\ result' = Call("recommend_item_based", u, 0, n, k, recommend_item_based(u, n, k))
        /\ UNCHANGED <<ratings_matrix, recommender_fields, system_fields>>

\* ------------------------------------------------------ similarity queries
\* mutant of MostSimilar: the queried id is not dropped
MostSimilar_SelfKept(matrix, id, n) ==
    LET labels == { p[1] : p \in DOMAIN matrix }
    IN  Take(SortDesc(SeqOf(labels), [l \in labels |-> RatOfInt(matrix[<<l, id>>])]), n)

\* similarity_matrix[id].drop(id).sort_values(ascending=False)[:n]
MostSimilar(matrix, id, n) ==
    LET labels == { p[1] : p \in DOMAIN matrix } \ {id}
    IN  Take(SortDesc(SeqOf(labels), [l \in labels |-> RatOfInt(matrix[<<l, id>>])]), n)

get_similar_users(user_id, n) ==
    IF user_similarity_matrix = <<>> THEN Raise("AttributeError")
    ELSE
    LET usm == user_similarity_matrix[1] IN
    IF user_id \notin { p[1] : p \in DOMAIN usm } THEN List(<<>>)
    ELSE
    LET similar_users == MostSimilar(usm, user_id, n)
    IN  List([j \in 1..Len(similar_users) |->
                 Rec(similar_users[j], <<"", 0>>,
                     Rat(usm[<<similar_users[j], user_id>>], SimScale))])

get_similar_anime(anime_id, n) ==
    IF item_similarity_matrix = <<>> THEN Raise("AttributeError")
    ELSE
    LET ism == item_similarity_matrix[1] IN
    IF anime_id \notin { p[1] : p \in DOMAIN ism } THEN List(<<>>)
    ELSE
    LET similar_anime == MostSimilar(ism, anime_id, n)
    IN  List([j \in 1..Len(similar_anime) |->
                 Rec(similar_anime[j], anime_name(similar_anime[j]),
                     Rat(ism[<<similar_anime[j], anime_id>>], SimScale))])

GetSimilarUsers ==
    \E u \in UserIds, n \in NValues :
        /\ result' = Call("get_similar_users", u, 0, n, 0, get_similar_users(u, n))
        /\ UNCHANGED <<ratings_matrix, recommender_fields, system_fields>>

GetSimilarAnime ==
    \E i \in ItemIds, n \in NValues :
        /\ result' = Call("get_similar_anime", 0, i, n, 0, get_similar_anime(i, n))
        /\ UNCHANGED <<ratings_matrix, recommender_fields, system_fields>>

\* ------------------------------------------------ AnimeRecommendationSystem
\* the default k of recommend_user_based and recommend_item_based
DefaultK == 20

NotFitted == "ValueError: Model not fitted. Call setup_recommender() first."
BadMethod == "ValueError: Method must be 'user_based' or 'item_based'"

Methods == {"user_based", "item_based", "content_based"}

\* setup_recommender: a new recommender replaces the old one and is fitted on
\* the loader's matrix; is_fitted is set only when fit returns
SetupRecommender ==
    /\ user_item_matrix' = <<ratings_matrix>>
    /\ mean_user_ratings' = <<MeanAxis1(ratings_matrix)>>
    /\ mean_item_ratings' = <<MeanAxis0(ratings_matrix)>>
    /\ IF FitRaises(ratings_matrix)
       THEN /\ user_similarity_matrix' = <<>>
            /\ item_similarity_matrix' = <<>>
            /\ fit_outcome' = "raise"
            /\ UNCHANGED is_fitted
            /\ evaluator' = IF evaluator = "none" THEN "none" ELSE "replaced"
            /\ result' = Call("setup_recommender", 0, 0, 0, 0, Raise("ValueError"))
       ELSE /\ user_similarity_matrix' = <<cosine_similarity(ratings_matrix, 1)>>
            /\ item_similarity_matrix' = <<cosine_similarity(ratings_matrix, 0)>>
            /\ fit_outcome' = "ok"
            /\ is_fitted' = TRUE
            /\ evaluator' = "recommender"
            /\ result' = Call("setup_recommender", 0, 0, 0, 0, Done)
    /\ UNCHANGED ratings_matrix

get_user_recommendations(user_id, method, n_recommendations) ==
    IF ~is_fitted THEN Raise(NotFitted)
    ELSE IF method = "user_based"
         THEN recommend_user_based(user_id, n_recommendations, DefaultK)
    ELSE IF method = "item_based"
         THEN recommend_item_based(user_id, n_recommendations, DefaultK)
    ELSE Raise(BadMethod)

system_get_similar_anime(anime_id, n_similar) ==
    IF ~is_fitted THEN Raise(NotFitted) ELSE get_similar_anime(anime_id, n_similar)

GetUserRecommendations ==
    \E u \in UserIds, m \in Methods, n \in NValues :
        /\ result' = Call("get_user_recommendations:" \o m, u, 0, n, DefaultK,
                          get_user_recommendations(u, m, n))
        /\ UNCHANGED <<ratings_matrix, recommender_fields, system_fields>>

SystemGetSimilarAnime ==
    \E i \in ItemIds, n \in NValues :
        /\ result' = Call("system.get_similar_anime", 0, i, n, 0,
                          system_get_similar_anime(i, n))
        /\ UNCHANGED <<ratings_matrix, recommender_fields, system_fields>>

\* ------------------------------------------------------ RecommenderEvaluator
\* the ratings table a matrix is pivoted from: its ratings, one row per rated
\* (user, item) pair
Unpivot(df) ==
    [c \in { c \in df.index \X df.columns : df.values[c] > 0 } |-> df.values[c]]

\* data_loader.ratings_df, the table behind the loader's matrix
ratings_df == Unpivot(ratings_matrix)

\* ratings_df['user_id'].unique()
Users(t) == { c[1] : c \in DOMAIN t }

\* t[t['user_id'].isin(users)]
RowsOf(t, users) == [c \in { c \in DOMAIN t : c[1] \in users } |-> t[c]]

\* the rows of t at the positions cells
RowsAt(t, cells) == [c \in cells |-> t[c]]

\* the default test_size, and the values of test_size that are tried
TestSize == <<1, 5>>
TestSizes == {TestSize, <<1, 2>>}

\* ceil(n / d)
Ceil(n, d) == (n + d - 1) \div d

\* mutant of train_test_split: the test part is not taken out of the train
\* part
train_test_split_TrainKeepsAll(S, test_size) ==
    LET n == Cardinality(S)
        n_test == Ceil(n * test_size[1], test_size[2])
        n_train == n - n_test
    IN  IF n = 0 \/ n_train = 0 THEN {}
        ELSE { <<S, T>> : T \in { T \in SUBSET S : Cardinality(T) = n_test } }

\* sklearn's train_test_split(S, test_size, random_state): the pairs
\* <<train, test>> a shuffle can give, ceil(test_size * n) elements in test
\* and the others in train; none when it raises ValueError, for an empty S or
\* an empty train part
train_test_split(S, test_size) ==
    LET n == Cardinality(S)
        n_test == Ceil(n * test_size[1], test_size[2])
        n_train == n - n_test
    IN  IF n = 0 \/ n_train = 0 THEN {}
        ELSE { <<S \ T, T>> : T \in { T \in SUBSET S : Cardinality(T) = n_test } }

\* what split_data returns: the train and the test table
Split(train_data, test_data) ==
    [tag |-> "split", val |-> NaN, items |-> <<train_data, test_data>>, err |-> ""]

\* the outcomes of split_data(test_size)
split_data(test_size) ==
    LET by_user == train_test_split(Users(ratings_df), test_size)
        by_rating == train_test_split(DOMAIN ratings_df, test_size)
    IN  IF by_user = {} THEN {Raise("ValueError")}
        ELSE UNION {
            LET train_data == RowsOf(ratings_df, p[1])
                test_data == RowsOf(ratings_df, p[2])
            IN  IF DOMAIN test_data = {}
                THEN IF by_rating = {} THEN {Raise("ValueError")}
                     ELSE { Split(RowsAt(ratings_df, q[1]), RowsAt(ratings_df, q[2])) :
                              q \in by_rating }
                ELSE {Split(train_data, test_data)} : p \in by_user }

SplitData ==
    \E test_size \in TestSizes :
        \E ret \in split_data(test_size) :
            /\ result' = Call("split_data", 0, 0, 0, 0, ret)
            /\ UNCHANGED <<ratings_matrix, recommender_fields, system_fields>>

\* mutant of RunEvaluation: the evaluator fits a recommender of its own
RunEvaluation_OwnRecommender ==
    IF ~is_fitted
    THEN /\ result' = Call("run_evaluation", 0, 0, 0, 0, Raise(NotFitted))
         /\ UNCHANGED <<ratings_matrix, recommender_fields, system_fields>>
    ELSE \E ret \in split_data(TestSize) :
            /\ result' = Call("run_evaluation", 0, 0, 0, 0,
                              IF ret.tag = "raise" THEN ret ELSE Done)
            /\ UNCHANGED <<ratings_matrix, recommender_fields, system_fields>>

\* run_evaluation: behind the guard, evaluator.run_full_evaluation splits the
\* ratings, fits the recommender the evaluator wraps on the matrix pivoted
\* from the train table, and evaluates both methods on the test table; the
\* two evaluations only call predict and recommend on the recommender just
\* fitted and return their metrics (EvaluationReturns)
RunEvaluation ==
    IF ~is_fitted
    THEN /\ result' = Call("run_evaluation", 0, 0, 0, 0, Raise(NotFitted))
         /\ UNCHANGED <<ratings_matrix, recommender_fields, system_fields>>
    ELSE IF evaluator = "none"
    THEN /\ result' = Call("run_evaluation", 0, 0, 0, 0, Raise("AttributeError"))
         /\ UNCHANGED <<ratings_matrix, recommender_fields, system_fields>>
    ELSE \E ret \in split_data(TestSize) :
            IF ret.tag = "raise"
            THEN /\ result' = Call("run_evaluation", 0, 0, 0, 0, ret)
                 /\ UNCHANGED <<ratings_matrix, recommender_fields, system_fields>>
            ELSE IF evaluator = "replaced"
            THEN \* the recommender that is fitted is no longer the system's
                 /\ result' = Call("run_evaluation", 0, 0, 0, 0, Done)
                 /\ UNCHANGED <<ratings_matrix, recommender_fields, system_fields>>
            ELSE LET train_matrix == Pivot(ret.items[1]) IN
                 /\ user_item_matrix' = <<train_matrix>>
                 /\ mean_user_ratings' = <<MeanAxis1(train_matrix)>>
                 /\ mean_item_ratings' = <<MeanAxis0(train_matrix)>>
                 /\ IF FitRaises(train_matrix)
                    THEN /\ UNCHANGED <<user_similarity_matrix, item_similarity_matrix>>
                         /\ fit_outcome' = "raise"
                         /\ result' = Call("run_evaluation", 0, 0, 0, 0, Raise("ValueError"))
                    ELSE /\ user_similarity_matrix' = <<cosine_similarity(train_matrix, 1)>>
                         /\ item_similarity_matrix' = <<cosine_similarity(train_matrix, 0)>>
                         /\ fit_outcome' = "ok"
                         /\ result' = Call("run_evaluation", 0, 0, 0, 0,
                                           Done)
                 /\ UNCHANGED <<ratings_matrix, system_fields>>

Init ==
    /\ ratings_matrix \in InputFrames
    /\ user_item_matrix = <<>>
    /\ mean_user_ratings = <<>>
    /\ mean_item_ratings = <<>>
    /\ user_similarity_matrix = <<>>
    /\ item_similarity_matrix = <<>>
    /\ fit_outcome = "none"
    /\ is_fitted = FALSE
    /\ evaluator = "none"
    /\ result = Call("init", 0, 0, 0, 0, Done)

NextPredict ==
    \/ Fit
    \/ PredictUserBased
    \/ PredictItemBased

NextRecommend ==
    \/ Fit
    \/ RecommendUserBased
    \/ RecommendItemBased

NextSimilar ==
    \/ Fit
    \/ GetSimilarUsers
    \/ GetSimilarAnime

NextCore ==
    \/ Fit
    \/ PredictUserBased
    \/ PredictItemBased
    \/ RecommendUserBased
    \/ RecommendItemBased

NextSystem ==
    \/ SetupRecommender
    \/ GetUserRecommendations
    \/ SystemGetSimilarAnime

\* fit called again after the caller has changed its matrix
NextRefit ==
    \/ Fit
    \/ CallerChangesMatrix
    \/ RecommendUserBased
    \/ GetSimilarAnime

\* setup_recommender called again after the ratings have changed
NextSetup ==
    \/ SetupRecommender
    \/ CallerChangesMatrix
    \/ SystemGetSimilarAnime

\* the system with its evaluator
NextEvaluation ==
    \/ SetupRecommender
    \/ GetUserRecommendations
    \/ SplitData
    \/ RunEvaluation

Next ==
    \/ NextCore
    \/ NextSimilar
    \/ NextSystem
    \/ CallerChangesMatrix
    \/ SplitData
    \/ RunEvaluation

\* every operation of the recommender, in any order
Spec == Init /\ [][Next]_vars

\* the recommender driven through one family of queries
SpecPredict == Init /\ [][NextPredict]_vars
SpecRecommend == Init /\ [][NextRecommend]_vars
SpecSimilar == Init /\ [][NextSimilar]_vars
SpecCore == Init /\ [][NextCore]_vars

\* the recommender reached only through AnimeRecommendationSystem
SpecSystem == Init /\ [][NextSystem]_vars

\* the recommender, and the system, over a matrix that changes between fits
SpecRefit == Init /\ [][NextRefit]_vars
SpecSetup == Init /\ [][NextSetup]_vars

\* the system evaluated between recommendations
SpecEvaluation == Init /\ [][NextEvaluation]_vars

\* ===================================================================== claims
PredictOps == {"predict_user_based", "predict_item_based"}
RecommendOps == {"recommend_user_based", "recommend_item_based"}

\* the last call of fit returned normally
FitCompleted == fit_outcome = "ok"

KnownUser(u) == u \in user_item_matrix[1].index
KnownItem(i) == i \in user_item_matrix[1].columns
Rating(u, i) == user_item_matrix[1].values[<<u, i>>]

\* the column mean of item i over all rows of the fitted matrix, zeros included
ColumnMean(i) ==
    LET df == user_item_matrix[1]
    IN  Rat(SumOver(df.index, [u \in df.index |-> df.values[<<u, i>>]]),
            Cardinality(df.index))

\* the row mean of user u over all columns of the fitted matrix, zeros included
RowMean(u) ==
    LET df == user_item_matrix[1]
    IN  Rat(SumOver(df.columns, [i \in df.columns |-> df.values[<<u, i>>]]),
            Cardinality(df.columns))

InScale(q) == RatLeq(RatOfInt(MinRating), q) /\ RatLeq(q, RatOfInt(MaxRating))

\* C1: after fit, every value predict returns lies in [1, 10], except that it
\* is exactly 0 when both the user and the item are unknown.
C1_PredictedRatingInScale ==
    (FitCompleted /\ result.op \in PredictOps) =>
        /\ result.ret.tag = "value"
        /\ IF ~KnownUser(result.user) /\ ~KnownItem(result.item)
           THEN result.ret.val = RatOfInt(0)
           ELSE InScale(result.ret.val)

\* the neighbours user-based prediction keeps for user u: positive similarity,
\* the k most similar
QualifyingNeighbors(u, k) ==
    LET usm == user_similarity_matrix[1]
        others == user_item_matrix[1].index \ {u}
    IN  Range(TopK(others, [n \in others |-> usm[<<n, u>>]], k))

\* C2: user-based prediction for a known user and a known item returns the
\* item's mean rating whenever no qualifying neighbour has rated the item; on
\* the matrix of spec.md section 8, recommend(user1, user_based, topN=1) is
\* item2 scored with item2's mean rating.
C2_ItemMeanWithoutRater ==
    /\ (/\ FitCompleted
        /\ result.op = "predict_user_based"
        /\ KnownUser(result.user)
        /\ KnownItem(result.item)
        /\ \A n \in QualifyingNeighbors(result.user, result.k) :
               Rating(n, result.item) = 0)
       => result.ret = Val(ColumnMean(result.item))
    /\ (/\ FitCompleted
        /\ user_item_matrix[1] = ScenarioFrame
        /\ result.op = "recommend_user_based"
        /\ result.user = 1
        /\ result.n = 1)
       => result.ret = List(<<Rec(2, anime_name(2), ColumnMean(2))>>)

\* C3: after fit, predict for a user that is not a row of the matrix and an
\* item that is a column returns exactly the item's column mean over all
\* users, unrated zeros included.
C3_UnknownUserGetsItemMean ==
    (/\ FitCompleted
     /\ result.op \in PredictOps
     /\ ~KnownUser(result.user)
     /\ KnownItem(result.item))
    => result.ret = Val(ColumnMean(result.item))

\* an unknown user asked about an item some users rated and some did not
C3_Witness ==
    /\ FitCompleted
    /\ result.op \in PredictOps
    /\ ~KnownUser(result.user)
    /\ KnownItem(result.item)
    /\ \E u \in user_item_matrix[1].index : Rating(u, result.item) = 0
    /\ \E u \in user_item_matrix[1].index : Rating(u, result.item) > 0
    /\ result.ret.tag = "value"

\* C4: after fit, predict for a known user and an item that is not a column
\* returns the user's row mean, zeros included, and predict for an unknown
\* user and an unknown item returns 0.
C4_UnknownItemGetsUserMean ==
    (FitCompleted /\ result.op \in PredictOps /\ ~KnownItem(result.item)) =>
        IF KnownUser(result.user)
        THEN result.ret = Val(RowMean(result.user))
        ELSE result.ret = Val(RatOfInt(0))

\* a known user, with a rated and an unrated item, asked about an unknown item
C4_Witness ==
    /\ FitCompleted
    /\ result.op \in PredictOps
    /\ KnownUser(result.user)
    /\ ~KnownItem(result.item)
    /\ \E i \in user_item_matrix[1].columns : Rating(result.user, i) = 0
    /\ \E i \in user_item_matrix[1].columns : Rating(result.user, i) > 0
    /\ result.ret.tag = "value"

\* C5: after fit has completed, predict and recommend are total: for every
\* user id and item id, known or not, every k >= 0 and every topN >= 0,
\* predict returns a number and recommend returns a list; neither raises.
C5_PredictAndRecommendTotal ==
    FitCompleted =>
        /\ result.op \in PredictOps =>
               result.ret.tag = "value" /\ ~IsNaN(result.ret.val)
        /\ result.op \in RecommendOps => result.ret.tag = "list"

\* predict asked about a user and an item that are both unknown
C5_Witness ==
    /\ FitCompleted
    /\ result.op \in PredictOps
    /\ ~KnownUser(result.user)
    /\ ~KnownItem(result.item)
    /\ result.ret.tag = "value"

QueryOps ==
    PredictOps \cup RecommendOps \cup {"get_similar_users", "get_similar_anime"}
        \cup { "get_user_recommendations:" \o m : m \in Methods }
        \cup {"system.get_similar_anime"}

\* C6: a query issued before fit has been called never returns a value; it is
\* signalled with the explicit "not fitted" error, on the recommender itself
\* and through AnimeRecommendationSystem.
C6_QueryBeforeFitIsNotFitted ==
    (fit_outcome = "none" /\ result.op \in QueryOps) => result.ret = Raise(NotFitted)

Min(a, b) == IF a < b THEN a ELSE b

\* C7: for a user that is not a row of the fitted matrix, recommend returns
\* the popularity list: min(topN, number of items) distinct items, each scored
\* with its mean rating, ordered by mean rating descending, and no item left
\* out has a higher mean than one that is in.
C7_UnknownUserGetsPopularityList ==
    (FitCompleted /\ result.op \in RecommendOps /\ ~KnownUser(result.user)) =>
        /\ result.ret.tag = "list"
        /\ LET l == result.ret.items
               cols == user_item_matrix[1].columns
               ids == { l[j].id : j \in 1..Len(l) }
           IN  /\ Len(l) = Min(result.n, Cardinality(cols))
               /\ ids \subseteq cols
               /\ Cardinality(ids) = Len(l)
               /\ \A j \in 1..Len(l) :
                      l[j] = Rec(l[j].id, anime_name(l[j].id), ColumnMean(l[j].id))
               /\ \A j, h \in 1..Len(l) : j < h => RatLeq(l[h].score, l[j].score)
               /\ \A i \in cols \ ids : \A j \in 1..Len(l) :
                      RatLeq(ColumnMean(i), l[j].score)

\* a popularity list that is truncated and not in column order
C7_Witness ==
    /\ FitCompleted
    /\ result.op \in RecommendOps
    /\ ~KnownUser(result.user)
    /\ result.ret.tag = "list"
    /\ Len(result.ret.items) = 2
    /\ Cardinality(user_item_matrix[1].columns) > 2
    /\ result.ret.items[1].id > result.ret.items[2].id
    /\ RatLess(result.ret.items[2].score, result.ret.items[1].score)

Unrated(u) == { i \in user_item_matrix[1].columns : Rating(u, i) = 0 }

\* what predict returns for the strategy of the recommend call op
PredictFor(op, u, i, k) ==
    IF op = "recommend_user_based" THEN predict_user_based(u, i, k)
    ELSE predict_item_based(u, i, k)

\* C8: for a known user, recommend returns (i) only items the user has not
\* rated, (ii) min(topN, number of unrated items) of them, (iii) ordered by
\* score non-increasing, (iv) each with the score predict gives it.
C8_KnownUserGetsUnratedRanked ==
    (FitCompleted /\ result.op \in RecommendOps /\ KnownUser(result.user)) =>
        /\ result.ret.tag = "list"
        /\ LET l == result.ret.items
               ids == { l[j].id : j \in 1..Len(l) }
           IN  /\ ids \subseteq Unrated(result.user)
               /\ Cardinality(ids) = Len(l)
               /\ Len(l) = Min(result.n, Cardinality(Unrated(result.user)))
               /\ \A j, h \in 1..Len(l) : j < h => RatLeq(l[h].score, l[j].score)
               /\ \A j \in 1..Len(l) :
                      Val(l[j].score) = PredictFor(result.op, result.user, l[j].id, result.k)

\* a user with a rated item is recommended two items, the later column first
C8_Witness ==
    /\ FitCompleted
    /\ result.op \in RecommendOps
    /\ KnownUser(result.user)
    /\ Unrated(result.user) /= user_item_matrix[1].columns
    /\ result.ret.tag = "list"
    /\ Len(result.ret.items) = 2
    /\ result.ret.items[1].id > result.ret.items[2].id

\* C9: in the list recommend returns for a known user, two items of equal
\* score are in the order of their columns in the ratings matrix.
C9_EqualScoresKeepColumnOrder ==
    (FitCompleted /\ result.op \in RecommendOps /\ KnownUser(result.user)) =>
        LET l == result.ret.items
        IN  \A j, h \in 1..Len(l) :
                (j < h /\ l[j].score = l[h].score) => l[j].id < l[h].id

\* a known user is recommended two items of equal score
C9_Witness ==
    /\ FitCompleted
    /\ result.op \in RecommendOps
    /\ KnownUser(result.user)
    /\ result.ret.tag = "list"
    /\ Len(result.ret.items) >= 2
    /\ result.ret.items[1].score = result.ret.items[2].score

Symmetric(matrix) == \A p \in DOMAIN matrix : matrix[p] = matrix[<<p[2], p[1]>>]

\* C10: after every fit both similarity matrices are symmetric.
C10_SimilaritySymmetric ==
    /\ user_similarity_matrix /= <<>> => Symmetric(user_similarity_matrix[1])
    /\ item_similarity_matrix /= <<>> => Symmetric(item_similarity_matrix[1])

\* a fit that found two users, and two items, neither orthogonal nor parallel
C10_Witness ==
    /\ FitCompleted
    /\ \E p \in DOMAIN user_similarity_matrix[1] :
           p[1] /= p[2] /\ user_similarity_matrix[1][p] \in 1..(SimScale - 1)
    /\ \E p \in DOMAIN item_similarity_matrix[1] :
           p[1] /= p[2] /\ item_similarity_matrix[1][p] \in 1..(SimScale - 1)

\* C11: after every fit the diagonal of each similarity matrix is 1, for every
\* user and every item of the matrix, those with an all-zero rating vector
\* included.
C11_DiagonalIsOne ==
    FitCompleted =>
        /\ \A u \in user_item_matrix[1].index :
               user_similarity_matrix[1][<<u, u>>] = SimScale
        /\ \A i \in user_item_matrix[1].columns :
               item_similarity_matrix[1][<<i, i>>] = SimScale

SimilarOps == {"get_similar_users", "get_similar_anime"}

\* the similarity matrix a similarity query reads, the entities it ranges
\* over, and the id it asks about
SimilarityOf(op) ==
    IF op = "get_similar_users" THEN user_similarity_matrix[1]
    ELSE item_similarity_matrix[1]

EntitiesOf(op) ==
    IF op = "get_similar_users" THEN user_item_matrix[1].index
    ELSE user_item_matrix[1].columns

QueriedId(call) == IF call.op = "get_similar_users" THEN call.user ELSE call.item

\* C12: after fit, similarUsers and similarItems return the empty list for an
\* unknown id; otherwise min(n, number of other entities) distinct entries,
\* never the queried entity, each with its similarity to it, ordered by
\* similarity non-increasing, and no entity left out is strictly more similar
\* than one that is in.
C12_SimilarReturnsTopN ==
    (FitCompleted /\ result.op \in SimilarOps) =>
        /\ result.ret.tag = "list"
        /\ LET sim == SimilarityOf(result.op)
               others == EntitiesOf(result.op) \ {QueriedId(result)}
               id == QueriedId(result)
               l == result.ret.items
               ids == { l[j].id : j \in 1..Len(l) }
           IN  IF id \notin EntitiesOf(result.op) THEN l = <<>>
               ELSE /\ Len(l) = Min(result.n, Cardinality(others))
                    /\ Cardinality(ids) = Len(l)
                    /\ ids \subseteq others
                    /\ \A j \in 1..Len(l) :
                           l[j].score = Rat(sim[<<l[j].id, id>>], SimScale)
                    /\ \A j, h \in 1..Len(l) : j < h => RatLeq(l[h].score, l[j].score)
                    /\ \A e \in others \ ids : \A j \in 1..Len(l) :
                           sim[<<e, id>>] <= sim[<<l[j].id, id>>]

\* a similarity query that leaves out an entity less similar than the one it
\* returns, which is not the first of the others
C12_Witness ==
    /\ FitCompleted
    /\ result.op \in SimilarOps
    /\ QueriedId(result) \in EntitiesOf(result.op)
    /\ result.ret.tag = "list"
    /\ Len(result.ret.items) = 1
    /\ \E e \in EntitiesOf(result.op) \ {QueriedId(result)} :
           /\ e < result.ret.items[1].id
           /\ SimilarityOf(result.op)[<<e, QueriedId(result)>>]
                  < SimilarityOf(result.op)[<<result.ret.items[1].id, QueriedId(result)>>]

\* the keys of a similarity matrix, none while it is None
KeysOf(matrix) == IF matrix = <<>> THEN {} ELSE { p[1] : p \in DOMAIN matrix[1] }

\* the keys of a table of mean ratings, none while it is None
LabelsOf(means) == IF means = <<>> THEN {} ELSE DOMAIN means[1]

\* C13: after any sequence of fit calls, the keys of the user similarity
\* matrix are exactly the row ids of the matrix fitted last and the keys of the
\* item similarity matrix exactly its column ids; an id absent from it is a key
\* of no similarity matrix and of no table of mean ratings.
C13_KeysAreLastFittedIds ==
    user_item_matrix /= <<>> =>
        /\ KeysOf(user_similarity_matrix) = user_item_matrix[1].index
        /\ KeysOf(item_similarity_matrix) = user_item_matrix[1].columns
        /\ LabelsOf(mean_user_ratings) \subseteq user_item_matrix[1].index
        /\ LabelsOf(mean_item_ratings) \subseteq user_item_matrix[1].columns

\* every field of the recommender is what a completed fit on df leaves
DerivedFrom(df) ==
    /\ user_item_matrix = <<df>>
    /\ mean_user_ratings = <<MeanAxis1(df)>>
    /\ mean_item_ratings = <<MeanAxis0(df)>>
    /\ user_similarity_matrix = <<cosine_similarity(df, 1)>>
    /\ item_similarity_matrix = <<cosine_similarity(df, 0)>>

NeverFitted ==
    /\ user_item_matrix = <<>>
    /\ mean_user_ratings = <<>>
    /\ mean_item_ratings = <<>>
    /\ user_similarity_matrix = <<>>
    /\ item_similarity_matrix = <<>>

\* C14: at every point the caller can observe, also after a fit that was
\* interrupted by an error, the stored matrix, the mean ratings and the two
\* similarity matrices derive from one and the same ratings matrix.
C14_RefitIsAtomic ==
    \/ NeverFitted
    \/ user_item_matrix /= <<>> /\ DerivedFrom(user_item_matrix[1])

\* the call repeated in the current state
Requery(call) ==
    CASE call.op = "predict_user_based" -> predict_user_based(call.user, call.item, call.k)
      [] call.op = "predict_item_based" -> predict_item_based(call.user, call.item, call.k)
      [] call.op = "recommend_user_based" -> recommend_user_based(call.user, call.n, call.k)
      [] call.op = "recommend_item_based" -> recommend_item_based(call.user, call.n, call.k)
      [] call.op = "get_similar_users" -> get_similar_users(call.user, call.n)
      [] call.op = "get_similar_anime" -> get_similar_anime(call.item, call.n)
      [] OTHER -> call.ret

\* C15: fit leaves the matrix it is passed unchanged and keeps a copy of its
\* own: a step that changes the caller's matrix changes no field of the
\* recommender, and the answer the last query gave is still the answer of the
\* same query, however the caller's matrix has changed since.
C15_FitKeepsOwnCopy ==
    /\ [](result.op \in QueryOps => result.ret = Requery(result))
    /\ [][ /\ (recommender_fields' /= recommender_fields)
                  => (ratings_matrix' = ratings_matrix)
           /\ (ratings_matrix' /= ratings_matrix)
                  => (recommender_fields' = recommender_fields)
         ]_vars

\* after a completed fit and a recommendation to a known user, the caller has
\* changed ratings of the matrix it had passed to fit
C15_Witness ==
    /\ FitCompleted
    /\ ratings_matrix /= user_item_matrix[1]
    /\ ratings_matrix.index = user_item_matrix[1].index
    /\ ratings_matrix.columns = user_item_matrix[1].columns
    /\ result.op = "recommend_user_based"
    /\ KnownUser(result.user)
    /\ result.ret.tag = "list"
    /\ Len(result.ret.items) > 0
    /\ \E i \in user_item_matrix[1].columns :
           Rating(result.user, i) /= ratings_matrix.values[<<result.user, i>>]

\* C16: fit called again on the matrix it was last called on leaves every
\* field of the recommender, hence the answer of every predict and recommend
\* call, what it was; predict and recommend change no field of the
\* recommender, so an answer does not depend on the queries issued before.
C16_RepeatedCallSameResult ==
    [][ /\ (/\ FitCompleted
             /\ user_item_matrix = <<ratings_matrix>>
             /\ ratings_matrix' = ratings_matrix
             /\ result'.op = "fit")
            => (recommender_fields' = recommender_fields)
        /\ (result'.op \in PredictOps \cup RecommendOps)
            => (recommender_fields' = recommender_fields)
      ]_vars

\* a known user was recommended an item at a score of its own, neither the
\* item's mean nor the user's
C16_Witness ==
    /\ FitCompleted
    /\ user_item_matrix = <<ratings_matrix>>
    /\ result.op \in RecommendOps
    /\ KnownUser(result.user)
    /\ result.ret.tag = "list"
    /\ \E j \in 1..Len(result.ret.items) :
           /\ result.ret.items[j].score /= ColumnMean(result.ret.items[j].id)
           /\ result.ret.items[j].score /= RowMean(result.user)

\* ratings clamped to the rating scale, as the claims state it
ClampToScale(q) ==
    IF RatLess(q, RatOfInt(MinRating)) THEN RatOfInt(MinRating)
    ELSE IF RatLess(RatOfInt(MaxRating), q) THEN RatOfInt(MaxRating)
    ELSE q

\* the sum of the rationals f[e] over the elements e of the set S
RECURSIVE RatSumOver(_, _)
RatSumOver(S, f) ==
    IF S = {} THEN RatOfInt(0)
    ELSE LET e == CHOOSE x \in S : TRUE IN RatAdd(f[e], RatSumOver(S \ {e}, f))

\* the sets a cut to the k most similar of the candidates cands may keep:
\* min(k, number of candidates) of them, none less similar than one left out
MostSimilarSets(cands, sim, k) ==
    { N \in SUBSET cands :
        /\ Cardinality(N) = Min(k, Cardinality(cands))
        /\ \A a \in N : \A b \in cands \ N : sim[b] <= sim[a] }

\* the users other than u of strictly positive similarity to u
PositiveUsers(u) ==
    { n \in user_item_matrix[1].index \ {u} : user_similarity_matrix[1][<<n, u>>] > 0 }

\* mean(u) + sum(sim(u,n) * (rating(n,i) - mean(n))) / sum(|sim(u,n)|) over the
\* neighbours R
UserBasedFormula(u, i, R) ==
    LET sim == [n \in R |-> user_similarity_matrix[1][<<u, n>>]]
    IN  RatAdd(RowMean(u),
               RatDiv(RatSumOver(R, [n \in R |->
                          RatMul(RatOfInt(sim[n]),
                                 RatSub(RatOfInt(Rating(n, i)), RowMean(n)))]),
                      RatSumOver(R, [n \in R |-> RatOfInt(Abs(sim[n]))])))

\* C17: user-based prediction for a known user u and a known item i: the
\* neighbours are the other users of strictly positive similarity to u, cut to
\* the k most similar before it is asked who rated i; when one of them rated i
\* the result is mean(u) + sum(sim * (rating - mean(n))) / sum(|sim|) over
\* exactly the neighbours that rated i, clamped to [1, 10].
C17_UserBasedWeightedAverage ==
    (/\ FitCompleted
     /\ result.op = "predict_user_based"
     /\ KnownUser(result.user)
     /\ KnownItem(result.item))
    => \E N \in MostSimilarSets(PositiveUsers(result.user),
                                [n \in PositiveUsers(result.user) |->
                                    user_similarity_matrix[1][<<n, result.user>>]],
                                result.k) :
           LET R == { n \in N : Rating(n, result.item) > 0 }
           IN  R /= {} =>
                   result.ret = Val(ClampToScale(UserBasedFormula(result.user, result.item, R)))

\* a prediction from two neighbours of which one rated the item, while a
\* less similar user that rated it too was cut off
C17_Witness ==
    /\ FitCompleted
    /\ result.op = "predict_user_based"
    /\ KnownUser(result.user)
    /\ KnownItem(result.item)
    /\ result.k = 2
    /\ result.ret.tag = "value"
    /\ LET sim == [n \in PositiveUsers(result.user) |->
                      user_similarity_matrix[1][<<n, result.user>>]]
           sets == MostSimilarSets(PositiveUsers(result.user), sim, result.k)
       IN  /\ Cardinality(sets) = 1
           /\ \E N \in sets :
                  /\ \E n \in N : Rating(n, result.item) > 0
                  /\ \E n \in N : Rating(n, result.item) = 0
                  /\ \E n \in PositiveUsers(result.user) \ N : Rating(n, result.item) > 0

\* the items u has rated that are of strictly positive similarity to i
PositiveItems(u, i) ==
    { n \in user_item_matrix[1].columns :
        Rating(u, n) > 0 /\ item_similarity_matrix[1][<<n, i>>] > 0 }

\* sum(sim(i,n) * rating(u,n)) / sum(|sim(i,n)|) over the neighbours N
ItemBasedFormula(u, i, N) ==
    LET sim == [n \in N |-> item_similarity_matrix[1][<<i, n>>]]
    IN  RatDiv(RatSumOver(N, [n \in N |-> RatOfInt(sim[n] * Rating(u, n))]),
               RatSumOver(N, [n \in N |-> RatOfInt(Abs(sim[n]))]))

\* C18: item-based prediction for a known user u and a known item i: the
\* neighbours are the items u has rated of strictly positive similarity to i,
\* cut to the k most similar; without a neighbour the result is the item mean
\* of i, otherwise sum(sim * rating) / sum(|sim|) clamped to [1, 10], which
\* lies between the smallest and the largest rating u gave to the neighbours.
C18_ItemBasedWeightedAverage ==
    (/\ FitCompleted
     /\ result.op = "predict_item_based"
     /\ KnownUser(result.user)
     /\ KnownItem(result.item))
    => \E N \in MostSimilarSets(PositiveItems(result.user, result.item),
                                [n \in PositiveItems(result.user, result.item) |->
                                    item_similarity_matrix[1][<<n, result.item>>]],
                                result.k) :
           IF N = {} THEN result.ret = Val(ColumnMean(result.item))
           ELSE /\ result.ret =
                       Val(ClampToScale(ItemBasedFormula(result.user, result.item, N)))
                /\ \E n \in N : RatLeq(RatOfInt(Rating(result.user, n)), result.ret.val)
                /\ \E n \in N : RatLeq(result.ret.val, RatOfInt(Rating(result.user, n)))

\* a prediction for an unrated item from the most similar of two rated items
\* that the user rated differently
C18_Witness ==
    /\ FitCompleted
    /\ result.op = "predict_item_based"
    /\ KnownUser(result.user)
    /\ KnownItem(result.item)
    /\ Rating(result.user, result.item) = 0
    /\ result.k = 1
    /\ result.ret.tag = "value"
    /\ \E a, b \in PositiveItems(result.user, result.item) :
           /\ Rating(result.user, a) /= Rating(result.user, b)
           /\ item_similarity_matrix[1][<<a, result.item>>]
                  /= item_similarity_matrix[1][<<b, result.item>>]

\* user u is a row of the fitted matrix without a rating
ZeroRow(u) == KnownUser(u) /\ \A i \in user_item_matrix[1].columns : Rating(u, i) = 0

\* no two items have the same mean rating
NoMeanTie ==
    \A i, j \in user_item_matrix[1].columns : i /= j => ColumnMean(i) /= ColumnMean(j)

\* the scores of a list of recommendations, in order
Scores(ret) == [j \in 1..Len(ret.items) |-> ret.items[j].score]

\* C19: for a user that is a row of the fitted matrix without a rating, both
\* strategies score every item with the item's mean rating: both recommend
\* methods return min(topN, number of items) items ordered by item mean
\* descending, with identical scores, and the very popularity list of an
\* unknown user when no two item means tie.
C19_ZeroRowUserGetsItemMeans ==
    (FitCompleted /\ result.op \in RecommendOps /\ ZeroRow(result.user)) =>
        /\ result.ret.tag = "list"
        /\ LET l == result.ret.items
               cols == user_item_matrix[1].columns
               ids == { l[j].id : j \in 1..Len(l) }
           IN  /\ Len(l) = Min(result.n, Cardinality(cols))
               /\ Cardinality(ids) = Len(l)
               /\ \A j \in 1..Len(l) : l[j].score = ColumnMean(l[j].id)
               /\ \A j, h \in 1..Len(l) : j < h => RatLeq(l[h].score, l[j].score)
               /\ \A i \in cols \ ids : \A j \in 1..Len(l) :
                      RatLeq(ColumnMean(i), l[j].score)
        /\ Scores(recommend_user_based(result.user, result.n, result.k))
               = Scores(recommend_item_based(result.user, result.n, result.k))
        /\ NoMeanTie => result.ret = _get_popular_recommendations(result.n)

\* a user without a rating is recommended two of three items that other
\* users rated, and not the first two columns
C19_Witness ==
    /\ FitCompleted
    /\ result.op \in RecommendOps
    /\ ZeroRow(result.user)
    /\ NoMeanTie
    /\ result.ret.tag = "list"
    /\ Len(result.ret.items) = 2
    /\ RatLess(result.ret.items[2].score, result.ret.items[1].score)
    /\ RatLess(RatOfInt(0), result.ret.items[2].score)
    /\ \E i \in user_item_matrix[1].columns :
           /\ i < result.ret.items[2].id
           /\ \A j \in 1..2 : result.ret.items[j].id /= i

\* C20: in every reachable state of AnimeRecommendationSystem, over any
\* sequence of setup_recommender calls, also of calls in which fit fails,
\* is_fitted implies that the recommender is one whose fit has completed and
\* that the evaluator wraps that recommender.
C20_IsFittedMeansFitted ==
    is_fitted => (FitCompleted /\ evaluator = "recommender")

\* ------------------------------------------------------------ split_data
\* split_data has returned a train and a test table
SplitReturned == result.op = "split_data" /\ result.ret.tag = "split"

\* the tables of a split that was returned
TrainOf(ret) == ret.items[1]
TestOf(ret) == ret.items[2]

\* the ratings table holds ratings of two users or more
TwoUsers == Cardinality(Users(ratings_df)) >= 2

\* C22: every user with ratings in the test table that split_data returns has
\* ratings in the train table it returns.
C22_TestUsersInTrain ==
    SplitReturned =>
        Users(TestOf(result.ret)) \subseteq Users(TrainOf(result.ret))

\* C23: on a ratings table with ratings of two users or more, split_data
\* returns a train and a test table that are both non-empty, share no rating,
\* and together hold every rating of the table, each with its value.
C23_SplitPartitionsTable ==
    (result.op = "split_data" /\ TwoUsers) =>
        /\ result.ret.tag = "split"
        /\ LET train_data == TrainOf(result.ret)
               test_data == TestOf(result.ret)
           IN  /\ DOMAIN train_data /= {}
               /\ DOMAIN test_data /= {}
               /\ DOMAIN train_data \cap DOMAIN test_data = {}
               /\ DOMAIN train_data \cup DOMAIN test_data = DOMAIN ratings_df
               /\ \A c \in DOMAIN train_data : train_data[c] = ratings_df[c]
               /\ \A c \in DOMAIN test_data : test_data[c] = ratings_df[c]

\* a table of three users or more is split, with two ratings or more in the
\* test table
C23_Witness ==
    /\ SplitReturned
    /\ Cardinality(Users(ratings_df)) >= 3
    /\ Cardinality(DOMAIN TestOf(result.ret)) >= 2
    /\ Cardinality(DOMAIN TrainOf(result.ret)) >= 2

\* --------------------------------------------------------- run_evaluation
\* the users with ratings that the recommender's matrix does not hold
UnknownUsers == Users(ratings_df) \ user_item_matrix[1].index

\* the recommender is fitted on a part of the users that have ratings
Stale == user_item_matrix /= <<>> /\ UnknownUsers /= {}

\* run_evaluation has returned its results, from the evaluator that wraps the
\* system's recommender
EvaluationReturned ==
    /\ result.op = "run_evaluation"
    /\ result.ret = Done
    /\ evaluator = "recommender"

\* the system has been asked for recommendations, by a method it has, for a
\* user that has ratings and is not in the recommender's matrix
UnknownUserAsked ==
    /\ result.op \in {"get_user_recommendations:user_based",
                      "get_user_recommendations:item_based"}
    /\ is_fitted
    /\ Stale
    /\ result.user \in UnknownUsers

\* the calls the two evaluations of run_full_evaluation make on the fitted
\* recommender, for the rows and the users of a test table, all return
EvaluationReturns ==
    EvaluationReturned =>
        \A ret \in split_data(TestSize) :
            (ret.tag = "split" /\ Pivot(TrainOf(ret)) = user_item_matrix[1]) =>
                /\ \A c \in DOMAIN TestOf(ret) :
                      /\ predict_user_based(c[1], c[2], DefaultK).tag = "value"
                      /\ ~IsNaN(predict_user_based(c[1], c[2], DefaultK).val)
                      /\ predict_item_based(c[1], c[2], DefaultK).tag = "value"
                      /\ ~IsNaN(predict_item_based(c[1], c[2], DefaultK).val)
                /\ \A u \in Users(TestOf(ret)) :
                      /\ recommend_user_based(u, 10, DefaultK).tag = "list"
                      /\ recommend_item_based(u, 10, DefaultK).tag = "list"

====
